---------------------------- MODULE Spec2Model ----------------------------
(***************************************************************************)
(* A model of the real-time broadcast hub of inventory-system              *)
(* (internal/realtime/hub.go): the Hub's coordination loop (Hub.Run), the  *)
(* non-blocking publish operation (BroadcastStockUpdate /                  *)
(* BroadcastJSONMessage), the upgrade entrypoint (ServeWsUpgrade) and the  *)
(* two loops of every Client (writePump, readPump).                        *)
(*                                                                         *)
(* Channels are modelled by what Go gives them: a buffered channel is a    *)
(* bounded FIFO sequence, a send in a select with a default case is an     *)
(* append when there is room and a no-op otherwise, an unbuffered channel  *)
(* is a rendezvous between the blocked sender and the receiving case of    *)
(* Hub.Run, and a closed channel yields its buffered values before it      *)
(* reports closure.                                                        *)
(***************************************************************************)
EXTENDS Naturals, Sequences, FiniteSets

(***************************************************************************)
(* Bounds of the model.  The two channel capacities stand for the          *)
(* capacity 256 of the source (hub.go:48 and hub.go:216).                   *)
(***************************************************************************)
MaxPublish == 3

BroadcastCap == 2

SendCap == 1

\* How many deregistration requests for one client reach Hub.Run in the
\* specification that lets a second requester send them (SpecDereg).
MaxDereg == 2

\* How many events are published in SpecDereg.
DeregPublish == 1

\* How many events are published in FairSpec.
FairPublish == 2

\* The connection requests: two clients, so that one can fail, lag or leave
\* while the other goes on.
Conn == {1, 2}

Msg == 1 .. MaxPublish

VARIABLES
    clients,      \* Hub.clients: the registry (the keys of the map)
    broadcast,    \* Hub.broadcast: the buffered fan-out queue
    hubPc,        \* position of Hub.Run: "select" or "fanout" (inside the range loop)
    hubMsg,       \* the message Hub.Run took from broadcast (0: none)
    hubTodo,      \* the clients the range loop of the fan-out has still to visit
    send,         \* Client.send of each client: its buffered outbound channel
    sendClosed,   \* whether Client.send has been closed
    closeCount,   \* how many times close(client.send) has been executed
    deregs,       \* how many requests for the client Hub.Run took from unregister
    connOpen,     \* whether Client.conn is open (conn.Close() not yet called)
    upPc,         \* position of ServeWsUpgrade for each connection request
    wpPc,         \* position of Client.writePump
    rpPc,         \* position of Client.readPump
    term,         \* the first terminal condition a loop of the client observed
    nextMsg,      \* the identity of the next event (one per Publish call)
    published,    \* history: the payload of each Publish call, in call order
    returnedAt,   \* observer: the clients ServeWsUpgrade had returned for, per call
    bytes,        \* the byte slice json.Marshal made for each event
    marshalCalls, \* history: how many times json.Marshal has been called
    accepted,     \* history: the events accepted into broadcast, in order
    pubDropped,   \* history: the events dropped by Publish (queue full)
    processed,    \* history: the events Hub.Run took, with the registry it saw
    offered,      \* history: the events placed in each client's send buffer
    skipped,      \* history: the events fan-out dropped for each client
    wire,         \* history: the events written to each client's transport
    wireBytes,    \* history: the bytes written to each client's transport
    wpExit,       \* history: how writePump returned, and the close frames it wrote
    items,        \* the rows of the items table, by id
    request,      \* the request each call of the item API serves
    svcPc,        \* position of each call in its handler, service and repository
    existingItem, \* UpdateItem: the item the service read
    itemForUpdate, \* UpdateItem: the item the service passes to the repository
    setClauses,   \* repository Update: the columns of its SET clause
    hist,         \* history: what each call did and how it was answered
    now,          \* the clock of the timed connection, in seconds
    readDeadline, \* the read deadline of its conn
    nextTick,     \* when its ticker fires next
    tickPending,  \* whether ticker.C holds a tick
    writing,      \* what its writePump is writing: "none", "message" or "ping"
    writeEnds,    \* when that write completes
    expired       \* whether its ReadMessage failed on the read deadline

vars == << clients, broadcast, hubPc, hubMsg, hubTodo, send, sendClosed,
           closeCount, deregs, connOpen, upPc, wpPc, rpPc, term,
           nextMsg, accepted, pubDropped, published, returnedAt, bytes,
           marshalCalls, processed, offered, skipped, wire, wireBytes, wpExit,
           items, request, svcPc, existingItem, itemForUpdate, setClauses, hist,
           now, readDeadline, nextTick, tickPending, writing, writeEnds, expired >>

hubVars == << clients, broadcast, hubPc, hubMsg, hubTodo >>

chanVars == << send, sendClosed, closeCount, deregs >>

pumpVars == << connOpen, wpPc, rpPc, term >>

pubVars == << nextMsg, accepted, pubDropped, published, bytes, marshalCalls, returnedAt >>

histVars == << processed, offered, skipped, wire, wireBytes, wpExit >>

svcVars == << items, request, svcPc, existingItem, itemForUpdate, setClauses, hist >>

timeVars == << now, readDeadline, nextTick, tickPending, writing, writeEnds, expired >>

\* What the hub and the pumps never touch.
extVars == << svcVars, timeVars >>

(***************************************************************************)
(* Helpers on sequences.                                                   *)
(***************************************************************************)
Range(s) == { s[i] : i \in 1 .. Len(s) }

Pos(s, x) == CHOOSE i \in 1 .. Len(s) : s[i] = x

NoDup(s) == \A i, j \in 1 .. Len(s) : i # j => s[i] # s[j]

\* s lists some of the elements of t, in the order t has them.
InOrderOf(s, t) ==
    /\ Range(s) \subseteq Range(t)
    /\ \A i, j \in 1 .. Len(s) : i < j => Pos(t, s[i]) < Pos(t, s[j])

(***************************************************************************)
(* The time constants of hub.go, in seconds.                               *)
(***************************************************************************)
writeWait == 10

pongWait == 60

pingPeriod == (pongWait * 9) \div 10

(***************************************************************************)
(* The items and the calls of the item API.  An id is a string; uuid.Parse *)
(* accepts the well-formed ones.  A field that may be absent (a nil        *)
(* pointer, a missing row) is a sequence of length 0 or 1.                 *)
(***************************************************************************)
Call == {1, 2}

Uuid == {"a", "b", "c", "d"}

WellFormed(id) == id \in Uuid

Item(sku, quantity) == [SKU |-> sku, Quantity |-> quantity]

\* The table when the server starts: two items, of different SKUs.
StoredAtStart ==
    [id \in Uuid |-> IF id = "a" THEN << Item("S1", 0) >>
                     ELSE IF id = "b" THEN << Item("S2", 0) >>
                     ELSE << >>]

NoRequest == [op |-> "none", id |-> "", SKU |-> << >>, Quantity |-> << >>]

NoHist ==
    [status |-> 0, repoCalls |-> 0, wrote |-> FALSE, missing |-> FALSE,
     conflict |-> FALSE, committed |-> << >>, event |-> 0]

\* How writePump returned (path) and how many close frames it wrote.
Exit(path, frames) == [path |-> path, closeFrames |-> frames]

NoExit == Exit("none", 0)

(***************************************************************************)
(* NewHub: empty registry, empty channels.  No connection request has been *)
(* made and nothing has been published.                                    *)
(***************************************************************************)
Init ==
    /\ clients = {}
    /\ broadcast = << >>
    /\ hubPc = "select"
    /\ hubMsg = 0
    /\ hubTodo = {}
    /\ send = [c \in Conn |-> << >>]
    /\ sendClosed = [c \in Conn |-> FALSE]
    /\ closeCount = [c \in Conn |-> 0]
    /\ deregs = [c \in Conn |-> 0]
    /\ connOpen = [c \in Conn |-> FALSE]
    /\ upPc = [c \in Conn |-> "none"]
    /\ wpPc = [c \in Conn |-> "none"]
    /\ rpPc = [c \in Conn |-> "none"]
    /\ term = [c \in Conn |-> "none"]
    /\ nextMsg = 1
    /\ published = << >>
    /\ returnedAt = << >>
    /\ bytes = [m \in Msg |-> << >>]
    /\ marshalCalls = 0
    /\ accepted = << >>
    /\ pubDropped = {}
    /\ processed = << >>
    /\ offered = [c \in Conn |-> << >>]
    /\ skipped = [c \in Conn |-> {}]
    /\ wire = [c \in Conn |-> << >>]
    /\ wireBytes = [c \in Conn |-> << >>]
    /\ wpExit = [c \in Conn |-> NoExit]
    /\ items = StoredAtStart
    /\ request = [k \in Call |-> NoRequest]
    /\ svcPc = [k \in Call |-> "idle"]
    /\ existingItem = [k \in Call |-> << >>]
    /\ itemForUpdate = [k \in Call |-> << >>]
    /\ setClauses = [k \in Call |-> {}]
    /\ hist = [k \in Call |-> NoHist]
    /\ now = 0
    /\ readDeadline = pongWait
    /\ nextTick = pingPeriod
    /\ tickPending = FALSE
    /\ writing = "none"
    /\ writeEnds = 0
    /\ expired = FALSE


(***************************************************************************)
(* A send in a select with a default case on a buffered channel of         *)
(* capacity cap: the message is appended when there is room, and the       *)
(* default case (nothing happens) is taken otherwise.                      *)
(***************************************************************************)
HasRoom(ch, cap) == Len(ch) < cap

\* Mutant: a full channel makes room by dropping its oldest message.
TrySendDropOldest(ch, cap, m) ==
    IF HasRoom(ch, cap) THEN Append(ch, m) ELSE Append(Tail(ch), m)

TrySend(ch, cap, m) == IF HasRoom(ch, cap) THEN Append(ch, m) ELSE ch

\* Records the first terminal condition that a loop of client c observes.
Observe(c, what) == term' = [term EXCEPT ![c] = IF @ = "none" THEN what ELSE @]

(***************************************************************************)
(* The encoding of an event.  json.Marshal turns the WebSocketMessage into *)
(* JSON text, modelled as the sequence of its tokens: punctuation, quoted  *)
(* strings and decimal numbers, the fields in the order and under the keys *)
(* of the struct tags.  Unmarshal is the parser a subscriber runs on what  *)
(* it reads: it takes the members of an object in any order.               *)
(***************************************************************************)
Digit == << "0", "1", "2", "3", "4", "5", "6", "7", "8", "9" >>

\* The decimal text of a number below 100, and the number of a decimal text.
Itoa(n) ==
    IF n < 10 THEN Digit[n + 1]
              ELSE Digit[(n \div 10) + 1] \o Digit[(n % 10) + 1]

Atoi(str) == CHOOSE n \in 0 .. 99 : Itoa(n) = str

Punct(ch) == << "punct", ch >>

String(str) == << "string", str >>

Number(n) == << "number", Itoa(n) >>

StockUpdateMessageType == "STOCK_UPDATE"

StockUpdatePayload(id, sku, quantity) ==
    [ID |-> id, SKU |-> sku, NewQuantity |-> quantity]

WebSocketMessage(payload) == [Type |-> StockUpdateMessageType, Payload |-> payload]

MarshalStockUpdatePayload(payload) ==
    << Punct("{"),
       String("id"), Punct(":"), String(payload.ID), Punct(","),
       String("sku"), Punct(":"), String(payload.SKU), Punct(","),
       String("new_quantity"), Punct(":"), Number(payload.NewQuantity),
       Punct("}") >>

Marshal(message) ==
    << Punct("{"),
       String("type"), Punct(":"), String(message.Type), Punct(","),
       String("payload"), Punct(":") >>
    \o MarshalStockUpdatePayload(message.Payload)
    \o << Punct("}") >>

\* The object with member key set to val.
WithMember(obj, key, val) ==
    [k \in DOMAIN obj \cup {key} |-> IF k = key THEN val ELSE obj[k]]

RECURSIVE ParseValue(_, _), ParseMembers(_, _, _)

\* The value that starts at token i, and the position after it.
ParseValue(toks, i) ==
    IF toks[i] = Punct("{")
       THEN ParseMembers(toks, i + 1, << >>)
       ELSE [val |-> IF toks[i][1] = "number" THEN Atoi(toks[i][2]) ELSE toks[i][2],
             next |-> i + 1]

\* The members of an object from token i on, added to obj.
ParseMembers(toks, i, obj) ==
    IF toks[i] = Punct("}") THEN [val |-> obj, next |-> i + 1]
    ELSE IF toks[i] = Punct(",") THEN ParseMembers(toks, i + 1, obj)
    ELSE LET member == ParseValue(toks, i + 2)
         IN  ParseMembers(toks, member.next, WithMember(obj, toks[i][2], member.val))

Unmarshal(toks) == ParseValue(toks, 1).val

\* The payload the publisher of Spec passes: the hub never looks into it.
SamplePayload == StockUpdatePayload("a", "S1", 1)

\* The payloads the publisher of SpecEncoding chooses from.
EncPayload == { SamplePayload, StockUpdatePayload("b", "S2", 12) }

(***************************************************************************)
(* Publish.  BroadcastStockUpdate encodes the event once (json.Marshal of  *)
(* a struct of two strings and an int cannot fail) and hands the bytes to  *)
(* BroadcastJSONMessage, which offers them to Hub.broadcast without        *)
(* blocking and drops them when the queue is full.  The encoding touches   *)
(* nothing shared, so a call is one step, the select on h.broadcast; calls *)
(* of concurrent publishers interleave freely with every other step.  Each *)
(* call's event gets the next identity.                                    *)
(***************************************************************************)
\* Mutant: a plain (blocking) send on h.broadcast, without the default case.
BroadcastJSONMessageBlocking(m) ==
    /\ HasRoom(broadcast, BroadcastCap)
    /\ broadcast' = Append(broadcast, m)
    /\ accepted' = Append(accepted, m)
    /\ UNCHANGED pubDropped
    /\ UNCHANGED << clients, hubPc, hubMsg, hubTodo >>
    /\ UNCHANGED << chanVars, pumpVars, upPc, histVars >>

BroadcastJSONMessage(m) ==
    /\ broadcast' = TrySend(broadcast, BroadcastCap, m)
    /\ IF broadcast' # broadcast
          THEN /\ accepted' = Append(accepted, m)
               /\ UNCHANGED pubDropped
          ELSE /\ pubDropped' = pubDropped \cup {m}
               /\ UNCHANGED accepted
    /\ UNCHANGED << clients, hubPc, hubMsg, hubTodo >>
    /\ UNCHANGED << chanVars, pumpVars, upPc, histVars >>

\* Mutant: the payload is encoded without the message around it.
BroadcastStockUpdateBarePayload(payload) ==
    /\ nextMsg <= MaxPublish
    /\ nextMsg' = nextMsg + 1
    /\ published' = Append(published, payload)
    /\ bytes' = [bytes EXCEPT ![nextMsg] = MarshalStockUpdatePayload(payload)]
    /\ marshalCalls' = marshalCalls + 1
    /\ BroadcastJSONMessage(nextMsg)

BroadcastStockUpdate(payload) ==
    /\ nextMsg <= MaxPublish
    /\ nextMsg' = nextMsg + 1
    /\ published' = Append(published, payload)
    /\ bytes' = [bytes EXCEPT ![nextMsg] = Marshal(WebSocketMessage(payload))]
    /\ marshalCalls' = marshalCalls + 1
    /\ BroadcastJSONMessage(nextMsg)

(***************************************************************************)
(* ServeWsUpgrade.  A failed upgrade returns with no client and no effect  *)
(* on the hub.  A successful one builds the client with an empty send      *)
(* channel and blocks on hub.register until Hub.Run receives it            *)
(* (HubRegister below); then it starts the two pumps.                      *)
(***************************************************************************)
\* Mutant: ServeWsUpgrade goes on without registering the client.
UpgradeNoRegister(c) ==
    /\ upPc[c] = "none"
    /\ upPc' = [upPc EXCEPT ![c] = "registered"]
    /\ connOpen' = [connOpen EXCEPT ![c] = TRUE]
    /\ send' = [send EXCEPT ![c] = << >>]
    /\ UNCHANGED << sendClosed, closeCount, deregs, wpPc, rpPc, term >>
    /\ UNCHANGED << hubVars, pubVars, histVars >>
    /\ UNCHANGED extVars

\* Mutant: a connection request may take a client whose loops have both
\* returned and set it up anew.
UpgradeReusesClient(c) ==
    /\ upPc[c] = "none" \/ (wpPc[c] = "done" /\ rpPc[c] = "done")
    /\ upPc' = [upPc EXCEPT ![c] = "registering"]
    /\ connOpen' = [connOpen EXCEPT ![c] = TRUE]
    /\ send' = [send EXCEPT ![c] = << >>]
    /\ UNCHANGED << sendClosed, closeCount, deregs, wpPc, rpPc, term >>
    /\ UNCHANGED << hubVars, pubVars, histVars >>
    /\ UNCHANGED extVars

Upgrade(c) ==
    /\ upPc[c] = "none"
    /\ upPc' = [upPc EXCEPT ![c] = "registering"]
    /\ connOpen' = [connOpen EXCEPT ![c] = TRUE]
    /\ send' = [send EXCEPT ![c] = << >>]
    /\ UNCHANGED << sendClosed, closeCount, deregs, wpPc, rpPc, term >>
    /\ UNCHANGED << hubVars, pubVars, histVars >>
    /\ UNCHANGED extVars

StartPumps(c) ==
    /\ upPc[c] = "registered"
    /\ upPc' = [upPc EXCEPT ![c] = "done"]
    /\ wpPc' = [wpPc EXCEPT ![c] = "run"]
    /\ rpPc' = [rpPc EXCEPT ![c] = "run"]
    /\ UNCHANGED << connOpen, term >>
    /\ UNCHANGED << hubVars, chanVars, pubVars, histVars >>
    /\ UNCHANGED extVars

(***************************************************************************)
(* Hub.Run, one action per case of its select and one per iteration of the *)
(* range loop of the fan-out.                                              *)
(***************************************************************************)
\* Mutant: Hub.Run adds whoever is sent on register, a client it has
\* registered before included.
HubRegisterAgain(c) ==
    /\ hubPc = "select"
    /\ upPc[c] # "none"
    /\ clients' = clients \cup {c}
    /\ upPc' = [upPc EXCEPT ![c] = IF @ = "registering" THEN "registered" ELSE @]
    /\ UNCHANGED << broadcast, hubPc, hubMsg, hubTodo >>
    /\ UNCHANGED << chanVars, pumpVars, pubVars, histVars >>
    /\ UNCHANGED extVars

\* case client := <-h.register
HubRegister(c) ==
    /\ hubPc = "select"
    /\ upPc[c] = "registering"
    /\ clients' = clients \cup {c}
    /\ upPc' = [upPc EXCEPT ![c] = "registered"]
    /\ UNCHANGED << broadcast, hubPc, hubMsg, hubTodo >>
    /\ UNCHANGED << chanVars, pumpVars, pubVars, histVars >>
    /\ UNCHANGED extVars

\* Mutant: the body without the test that the client is in the registry.
ApplyUnregisterUnchecked(c) ==
    /\ clients' = clients \ {c}
    /\ sendClosed' = [sendClosed EXCEPT ![c] = TRUE]
    /\ closeCount' = [closeCount EXCEPT ![c] = @ + 1]

\* Mutant: a deregistration empties the registry and closes every buffer.
ApplyUnregisterEveryClient(c) ==
    IF c \in clients
       THEN /\ clients' = {}
            /\ sendClosed' = [d \in Conn |-> sendClosed[d] \/ d \in clients]
            /\ closeCount' = [d \in Conn |-> IF d \in clients THEN closeCount[d] + 1
                                                              ELSE closeCount[d]]
       ELSE UNCHANGED << clients, sendClosed, closeCount >>

\* Mutant: the buffer is closed and the client stays in the registry.
ApplyUnregisterNoDelete(c) ==
    IF c \in clients /\ ~sendClosed[c]
       THEN /\ sendClosed' = [sendClosed EXCEPT ![c] = TRUE]
            /\ closeCount' = [closeCount EXCEPT ![c] = @ + 1]
            /\ UNCHANGED clients
       ELSE UNCHANGED << clients, sendClosed, closeCount >>

\* Mutant: the client is deleted from the registry and its buffer is left
\* open.
ApplyUnregisterNoClose(c) ==
    IF c \in clients
       THEN /\ clients' = clients \ {c}
            /\ UNCHANGED << sendClosed, closeCount >>
       ELSE UNCHANGED << clients, sendClosed, closeCount >>

\* The body of case client := <-h.unregister, for whoever sent the request.
ApplyUnregister(c) ==
    IF c \in clients
       THEN /\ clients' = clients \ {c}
            /\ sendClosed' = [sendClosed EXCEPT ![c] = TRUE]
            /\ closeCount' = [closeCount EXCEPT ![c] = @ + 1]
       ELSE UNCHANGED << clients, sendClosed, closeCount >>

\* Mutant: the registry is changed by the sender of the request, at any
\* time, also while the range loop of the fan-out is running.
HubUnregisterMidLoop(c) ==
    /\ rpPc[c] = "unregister"
    /\ ApplyUnregister(c)
    /\ deregs' = [deregs EXCEPT ![c] = @ + 1]
    /\ rpPc' = [rpPc EXCEPT ![c] = "close"]
    /\ UNCHANGED << broadcast, hubPc, hubMsg, hubTodo, send >>
    /\ UNCHANGED << connOpen, wpPc, term, upPc, pubVars, histVars >>
    /\ UNCHANGED extVars

\* case client := <-h.unregister, the sender being the client's readPump
HubUnregister(c) ==
    /\ hubPc = "select"
    /\ rpPc[c] = "unregister"
    /\ ApplyUnregister(c)
    /\ deregs' = [deregs EXCEPT ![c] = @ + 1]
    /\ rpPc' = [rpPc EXCEPT ![c] = "close"]
    /\ UNCHANGED << broadcast, hubPc, hubMsg, hubTodo, send >>
    /\ UNCHANGED << connOpen, wpPc, term, upPc, pubVars, histVars >>
    /\ UNCHANGED extVars

\* The step of case message := <-h.broadcast that takes message m, leaves
\* rest in the queue and enters the range loop over the set todo.
TakeBroadcast(m, rest, todo) ==
    /\ hubPc = "select"
    /\ broadcast # << >>
    /\ broadcast' = rest
    /\ hubMsg' = IF todo = {} THEN 0 ELSE m
    /\ hubTodo' = todo
    /\ hubPc' = IF todo = {} THEN "select" ELSE "fanout"
    /\ processed' = Append(processed, [msg |-> m, reg |-> clients])
    /\ UNCHANGED << clients, offered, skipped, wire, wireBytes, wpExit >>
    /\ UNCHANGED << chanVars, pumpVars, upPc, pubVars >>
    /\ UNCHANGED extVars

\* Mutant: the loop ranges over every client that has been built, whether
\* or not the registry holds it.
HubBroadcastEveryClient ==
    /\ broadcast # << >>
    /\ TakeBroadcast(Head(broadcast), Tail(broadcast),
                     {c \in Conn : upPc[c] # "none" /\ ~sendClosed[c]})

\* Mutant: the queue hands out its newest message first.
HubBroadcastNewestFirst ==
    /\ broadcast # << >>
    /\ TakeBroadcast(broadcast[Len(broadcast)],
                     SubSeq(broadcast, 1, Len(broadcast) - 1), clients)

\* case message := <-h.broadcast: the loop is entered over the registry.
HubBroadcast ==
    /\ broadcast # << >>
    /\ TakeBroadcast(Head(broadcast), Tail(broadcast), clients)

\* What an iteration of the range loop leaves of the loop: the clients
\* still to visit.
FanOutAdvance(todo) ==
    /\ hubTodo' = todo
    /\ hubPc' = IF todo = {} THEN "select" ELSE "fanout"
    /\ hubMsg' = IF todo = {} THEN 0 ELSE hubMsg

\* Mutant: the loop ends at the first client whose buffer is full.
HubFanOutStopAtFull(c) ==
    /\ hubPc = "fanout"
    /\ c \in hubTodo
    /\ send' = [send EXCEPT ![c] = TrySend(@, SendCap, hubMsg)]
    /\ IF send'[c] # send[c]
          THEN /\ offered' = [offered EXCEPT ![c] = Append(@, hubMsg)]
               /\ UNCHANGED skipped
               /\ FanOutAdvance(hubTodo \ {c})
          ELSE /\ skipped' = [skipped EXCEPT ![c] = @ \cup {hubMsg}]
               /\ UNCHANGED offered
               /\ FanOutAdvance({})
    /\ UNCHANGED << clients, broadcast, sendClosed, closeCount, deregs, processed, wire, wireBytes, wpExit >>
    /\ UNCHANGED << pumpVars, upPc, pubVars >>
    /\ UNCHANGED extVars

\* Mutant: a client whose buffer is full is unregistered by the fan-out
\* (what the log line of the default case announces).
HubFanOutEvict(c) ==
    /\ hubPc = "fanout"
    /\ c \in hubTodo
    /\ send' = [send EXCEPT ![c] = TrySend(@, SendCap, hubMsg)]
    /\ IF send'[c] # send[c]
          THEN /\ offered' = [offered EXCEPT ![c] = Append(@, hubMsg)]
               /\ UNCHANGED << skipped, clients, sendClosed, closeCount >>
          ELSE /\ skipped' = [skipped EXCEPT ![c] = @ \cup {hubMsg}]
               /\ clients' = clients \ {c}
               /\ sendClosed' = [sendClosed EXCEPT ![c] = TRUE]
               /\ closeCount' = [closeCount EXCEPT ![c] = @ + 1]
               /\ UNCHANGED offered
    /\ FanOutAdvance(hubTodo \ {c})
    /\ UNCHANGED << broadcast, deregs, processed, wire, wireBytes, wpExit >>
    /\ UNCHANGED << pumpVars, upPc, pubVars >>
    /\ UNCHANGED extVars

\* Mutant: a client whose buffer is full is deleted from the registry by
\* the fan-out, its buffer left open.
HubFanOutDeleteFull(c) ==
    /\ hubPc = "fanout"
    /\ c \in hubTodo
    /\ send' = [send EXCEPT ![c] = TrySend(@, SendCap, hubMsg)]
    /\ IF send'[c] # send[c]
          THEN /\ offered' = [offered EXCEPT ![c] = Append(@, hubMsg)]
               /\ UNCHANGED << skipped, clients >>
          ELSE /\ skipped' = [skipped EXCEPT ![c] = @ \cup {hubMsg}]
               /\ clients' = clients \ {c}
               /\ UNCHANGED offered
    /\ FanOutAdvance(hubTodo \ {c})
    /\ UNCHANGED << broadcast, sendClosed, closeCount, deregs, processed, wire, wireBytes, wpExit >>
    /\ UNCHANGED << pumpVars, upPc, pubVars >>
    /\ UNCHANGED extVars

\* Mutant: the range loop sends with a plain (blocking) send on client.send.
HubFanOutBlocking(c) ==
    /\ hubPc = "fanout"
    /\ c \in hubTodo
    /\ HasRoom(send[c], SendCap)
    /\ send' = [send EXCEPT ![c] = Append(@, hubMsg)]
    /\ offered' = [offered EXCEPT ![c] = Append(@, hubMsg)]
    /\ UNCHANGED skipped
    /\ FanOutAdvance(hubTodo \ {c})
    /\ UNCHANGED << clients, broadcast, sendClosed, closeCount, deregs, processed, wire, wireBytes, wpExit >>
    /\ UNCHANGED << pumpVars, upPc, pubVars >>
    /\ UNCHANGED extVars

\* One iteration of the range loop: select { case client.send <- message: default: }
HubFanOut(c) ==
    /\ hubPc = "fanout"
    /\ c \in hubTodo
    /\ send' = [send EXCEPT ![c] = TrySend(@, SendCap, hubMsg)]
    /\ IF send'[c] # send[c]
          THEN /\ offered' = [offered EXCEPT ![c] = Append(@, hubMsg)]
               /\ UNCHANGED skipped
          ELSE /\ skipped' = [skipped EXCEPT ![c] = @ \cup {hubMsg}]
               /\ UNCHANGED offered
    /\ FanOutAdvance(hubTodo \ {c})
    /\ UNCHANGED << clients, broadcast, sendClosed, closeCount, deregs, processed, wire, wireBytes, wpExit >>
    /\ UNCHANGED << pumpVars, upPc, pubVars >>
    /\ UNCHANGED extVars

(***************************************************************************)
(* Client.writePump.  Every return runs the deferred conn.Close().         *)
(***************************************************************************)
\* Mutant: writePump returns without closing the connection.
WritePumpExitNoClose(c) ==
    /\ wpPc' = [wpPc EXCEPT ![c] = "done"]
    /\ UNCHANGED connOpen

WritePumpExit(c) ==
    /\ wpPc' = [wpPc EXCEPT ![c] = "done"]
    /\ connOpen' = [connOpen EXCEPT ![c] = FALSE]

\* Mutant: the written message stays at the head of the buffer.
WriteMessageKeepsHead(c) ==
    /\ wpPc[c] = "run"
    /\ send[c] # << >>
    /\ connOpen[c]
    /\ Len(wire[c]) < MaxPublish + 1
    /\ wire' = [wire EXCEPT ![c] = Append(@, Head(send[c]))]
    /\ wireBytes' = [wireBytes EXCEPT ![c] = Append(@, bytes[Head(send[c])])]
    /\ UNCHANGED << chanVars, processed, offered, skipped, wpExit >>
    /\ UNCHANGED << hubVars, pumpVars, upPc, pubVars >>
    /\ UNCHANGED extVars

\* case message, ok := <-c.send with ok: the write succeeds
WriteMessage(c) ==
    /\ wpPc[c] = "run"
    /\ send[c] # << >>
    /\ connOpen[c]
    /\ send' = [send EXCEPT ![c] = Tail(@)]
    /\ wire' = [wire EXCEPT ![c] = Append(@, Head(send[c]))]
    /\ wireBytes' = [wireBytes EXCEPT ![c] = Append(@, bytes[Head(send[c])])]
    /\ UNCHANGED << sendClosed, closeCount, deregs, processed, offered, skipped, wpExit >>
    /\ UNCHANGED << hubVars, pumpVars, upPc, pubVars >>
    /\ UNCHANGED extVars

\* Mutant: writePump closes its own send buffer when a write fails.
WriteMessageFailClosesSend(c) ==
    /\ wpPc[c] = "run"
    /\ send[c] # << >>
    /\ send' = [send EXCEPT ![c] = Tail(@)]
    /\ sendClosed' = [sendClosed EXCEPT ![c] = TRUE]
    /\ closeCount' = [closeCount EXCEPT ![c] = @ + 1]
    /\ WritePumpExit(c)
    /\ Observe(c, "write")
    /\ wpExit' = [wpExit EXCEPT ![c] = Exit("write", 0)]
    /\ UNCHANGED << deregs, rpPc >>
    /\ UNCHANGED << hubVars, upPc, pubVars, processed, offered, skipped, wire, wireBytes >>
    /\ UNCHANGED extVars

\* case message, ok := <-c.send with ok: the write fails (error, write
\* deadline, or the connection is already closed)
WriteMessageFail(c) ==
    /\ wpPc[c] = "run"
    /\ send[c] # << >>
    /\ send' = [send EXCEPT ![c] = Tail(@)]
    /\ WritePumpExit(c)
    /\ Observe(c, "write")
    /\ wpExit' = [wpExit EXCEPT ![c] = Exit("write", 0)]
    /\ UNCHANGED << sendClosed, closeCount, deregs, rpPc >>
    /\ UNCHANGED << hubVars, upPc, pubVars, processed, offered, skipped, wire, wireBytes >>
    /\ UNCHANGED extVars

\* Mutant: writePump returns on the closed buffer without a close frame.
WriteCloseNoFrame(c) ==
    /\ wpPc[c] = "run"
    /\ send[c] = << >>
    /\ sendClosed[c]
    /\ WritePumpExit(c)
    /\ wpExit' = [wpExit EXCEPT ![c] = Exit("closed", 0)]
    /\ UNCHANGED << rpPc, term >>
    /\ UNCHANGED << hubVars, chanVars, upPc, pubVars, processed, offered, skipped, wire, wireBytes >>
    /\ UNCHANGED extVars

\* case message, ok := <-c.send with !ok: the close frame is written
\* (whether the write succeeds is not looked at), return
WriteClose(c) ==
    /\ wpPc[c] = "run"
    /\ send[c] = << >>
    /\ sendClosed[c]
    /\ WritePumpExit(c)
    /\ wpExit' = [wpExit EXCEPT ![c] = Exit("closed", 1)]
    /\ UNCHANGED << rpPc, term >>
    /\ UNCHANGED << hubVars, chanVars, upPc, pubVars, processed, offered, skipped, wire, wireBytes >>
    /\ UNCHANGED extVars

\* case <-ticker.C: the ping write fails
WritePingFail(c) ==
    /\ wpPc[c] = "run"
    /\ WritePumpExit(c)
    /\ Observe(c, "ping")
    /\ wpExit' = [wpExit EXCEPT ![c] = Exit("ping", 0)]
    /\ UNCHANGED rpPc
    /\ UNCHANGED << hubVars, chanVars, upPc, pubVars, processed, offered, skipped, wire, wireBytes >>
    /\ UNCHANGED extVars

(***************************************************************************)
(* Client.readPump.  ReadMessage fails on a read error, on the expiry of   *)
(* the read deadline, on a close by the peer, and always once the          *)
(* connection has been closed locally.  The deferred function then blocks  *)
(* on hub.unregister until Hub.Run receives it (HubUnregister above), and  *)
(* closes the connection.                                                  *)
(***************************************************************************)
\* Mutant: readPump closes the connection as soon as the read fails, before
\* its unregister request is taken.
ReadFailClosesFirst(c) ==
    /\ rpPc[c] = "run"
    /\ rpPc' = [rpPc EXCEPT ![c] = "unregister"]
    /\ connOpen' = [connOpen EXCEPT ![c] = FALSE]
    /\ Observe(c, "read")
    /\ UNCHANGED wpPc
    /\ UNCHANGED << hubVars, chanVars, upPc, pubVars, histVars >>
    /\ UNCHANGED extVars

ReadFail(c) ==
    /\ rpPc[c] = "run"
    /\ rpPc' = [rpPc EXCEPT ![c] = "unregister"]
    /\ Observe(c, "read")
    /\ UNCHANGED << connOpen, wpPc >>
    /\ UNCHANGED << hubVars, chanVars, upPc, pubVars, histVars >>
    /\ UNCHANGED extVars

ReadPumpClose(c) ==
    /\ rpPc[c] = "close"
    /\ rpPc' = [rpPc EXCEPT ![c] = "done"]
    /\ connOpen' = [connOpen EXCEPT ![c] = FALSE]
    /\ UNCHANGED << wpPc, term >>
    /\ UNCHANGED << hubVars, chanVars, upPc, pubVars, histVars >>
    /\ UNCHANGED extVars

(***************************************************************************)
(* The program: publishers, connection requests, the hub and the pumps.    *)
(***************************************************************************)
PublisherStep == BroadcastStockUpdate(SamplePayload) /\ UNCHANGED << returnedAt, extVars >>

UpgradeStep == \E c \in Conn : Upgrade(c) \/ StartPumps(c)

HubStep ==
    \/ \E c \in Conn : HubRegister(c) \/ HubUnregister(c) \/ HubFanOut(c)
    \/ HubBroadcast

WritePumpStep ==
    \E c \in Conn : WriteMessage(c) \/ WriteMessageFail(c) \/ WriteClose(c) \/ WritePingFail(c)

ReadPumpStep == \E c \in Conn : ReadFail(c) \/ ReadPumpClose(c)

Next == PublisherStep \/ UpgradeStep \/ HubStep \/ WritePumpStep \/ ReadPumpStep

Spec == Init /\ [][Next]_vars

(***************************************************************************)
(* The program under the scheduling Go gives it.  Hub.Run, once started,   *)
(* keeps running and its select picks among the ready cases at random, so  *)
(* no ready case is passed over for ever; a started goroutine that can     *)
(* take a step takes it.  Nothing is assumed of the peers or the           *)
(* publishers: a write or a read fails of itself only when the environment *)
(* makes it fail, but once the connection is closed locally every write    *)
(* and every read on it fails.  Fewer events are published than in Spec,   *)
(* to keep the check of the temporal properties small.                     *)
(***************************************************************************)
HubFairness ==
    /\ WF_vars(HubBroadcast)
    /\ \A c \in Conn : /\ SF_vars(HubRegister(c))
                       /\ SF_vars(HubUnregister(c))
                       /\ WF_vars(HubFanOut(c))

PumpFairness ==
    \A c \in Conn :
        /\ WF_vars(StartPumps(c))
        /\ WF_vars(WriteMessage(c) \/ WriteMessageFail(c))
        /\ WF_vars(WriteClose(c))
        /\ WF_vars(ReadFail(c) /\ ~connOpen[c])
        /\ WF_vars(ReadPumpClose(c))

NextFair == Next /\ nextMsg' <= FairPublish + 1

FairSpec == Init /\ [][NextFair]_vars /\ HubFairness /\ PumpFairness

(***************************************************************************)
(* The hub with a second requester of deregistration.  In the program only *)
(* readPump sends on hub.unregister, once per client; Hub.Run's case       *)
(* serves whoever sends.  SecondUnregister is a further sender for a       *)
(* client that has been registered (a second loop, or a test, reporting    *)
(* the same client again), rendezvousing with Hub.Run's case at any time:  *)
(* before, between or after the request of the client's readPump.  Fewer   *)
(* events are published, deregistration being what this specification is   *)
(* about.                                                                  *)
(***************************************************************************)
SecondUnregister(c) ==
    /\ hubPc = "select"
    /\ upPc[c] \in {"registered", "done"}
    /\ deregs[c] < MaxDereg
    /\ ApplyUnregister(c)
    /\ deregs' = [deregs EXCEPT ![c] = @ + 1]
    /\ UNCHANGED << broadcast, hubPc, hubMsg, hubTodo, send >>
    /\ UNCHANGED << pumpVars, upPc, pubVars, histVars >>
    /\ UNCHANGED extVars

NextDereg ==
    \/ Next /\ nextMsg' <= DeregPublish + 1
    \/ \E c \in Conn : SecondUnregister(c)

SpecDereg == Init /\ [][NextDereg]_vars

(***************************************************************************)
(* The hub with an observer at the publisher's side, which notes at every  *)
(* Publish call the clients for which ServeWsUpgrade has returned by the   *)
(* beginning of the call.                                                  *)
(***************************************************************************)
\* How many events are published in SpecObserved.
ObsPublish == 2

PublishObserved ==
    /\ BroadcastStockUpdate(SamplePayload)
    /\ returnedAt' = Append(returnedAt, {c \in Conn : upPc[c] = "done"})
    /\ UNCHANGED extVars

NextObserved ==
    /\ PublishObserved \/ UpgradeStep \/ HubStep \/ WritePumpStep \/ ReadPumpStep
    /\ nextMsg' <= ObsPublish + 1

SpecObserved == Init /\ [][NextObserved]_vars

(***************************************************************************)
(* The hub with a publisher that chooses what it publishes.                *)
(***************************************************************************)
\* How many events are published in SpecEncoding.
EncPublish == 2

PublishEncoded ==
    /\ \E payload \in EncPayload : BroadcastStockUpdate(payload)
    /\ UNCHANGED << returnedAt, extVars >>

NextEncoding ==
    /\ PublishEncoded \/ UpgradeStep \/ HubStep \/ WritePumpStep \/ ReadPumpStep
    /\ nextMsg' <= EncPublish + 1

SpecEncoding == Init /\ [][NextEncoding]_vars

(***************************************************************************)
(* The hub with the register case of Hub.Run in its two steps.  register   *)
(* is an unbuffered channel: the send in ServeWsUpgrade (hub.go:218)       *)
(* completes when Hub.Run receives the client (hub.go:60), and the insert  *)
(* into the map (hub.go:61-64) is a later step of Hub.Run, so              *)
(* ServeWsUpgrade may go on and start the pumps in between.  Nothing but   *)
(* Hub.Run reads the map, which is why Spec may take the two steps as one  *)
(* (HubRegister) for what the fan-out does; this specification is for what *)
(* is said of the map at the moments in between.  While Hub.Run holds the  *)
(* received client, hubPc is "register" and hubTodo is that client.        *)
(***************************************************************************)
\* How many events are published in SpecRegister.
RegPublish == 2

\* Mutant: the register request is received wherever Hub.Run is, also
\* inside the range loop of a fan-out.
ReceiveRegisterAnyTime(c) ==
    /\ upPc[c] = "registering"
    /\ upPc' = [upPc EXCEPT ![c] = "registered"]
    /\ hubPc' = "register"
    /\ hubTodo' = {c}
    /\ UNCHANGED << clients, broadcast, hubMsg >>
    /\ UNCHANGED << chanVars, pumpVars, pubVars, histVars >>
    /\ UNCHANGED extVars

\* case client := <-h.register: the receipt
ReceiveRegister(c) ==
    /\ hubPc = "select"
    /\ upPc[c] = "registering"
    /\ upPc' = [upPc EXCEPT ![c] = "registered"]
    /\ hubPc' = "register"
    /\ hubTodo' = {c}
    /\ UNCHANGED << clients, broadcast, hubMsg >>
    /\ UNCHANGED << chanVars, pumpVars, pubVars, histVars >>
    /\ UNCHANGED extVars

\* h.clients[client] = true
InsertClient(c) ==
    /\ hubPc = "register"
    /\ c \in hubTodo
    /\ clients' = clients \cup {c}
    /\ hubPc' = "select"
    /\ hubTodo' = {}
    /\ UNCHANGED << broadcast, hubMsg >>
    /\ UNCHANGED << chanVars, pumpVars, upPc, pubVars, histVars >>
    /\ UNCHANGED extVars

HubStepRegister ==
    \/ \E c \in Conn : ReceiveRegister(c) \/ InsertClient(c) \/ HubUnregister(c) \/ HubFanOut(c)
    \/ HubBroadcast

NextRegister ==
    /\ PublisherStep \/ UpgradeStep \/ HubStepRegister \/ WritePumpStep \/ ReadPumpStep
    /\ nextMsg' <= RegPublish + 1

SpecRegister == Init /\ [][NextRegister]_vars

(***************************************************************************)
(* The item API: the handlers of item_handler.go over the item service     *)
(* and the PostgreSQL repository.  A request is bound and validated before *)
(* the service is called; what is modelled starts there.  Every SQL        *)
(* statement is one step (the repository opens no transaction, so each     *)
(* statement commits by itself); what a call computes between two          *)
(* statements touches nothing shared and is part of the step of the        *)
(* statement before it, the answer of the handler included.                *)
(*                                                                         *)
(* An error is the set of the sentinel errors in its chain: fmt.Errorf     *)
(* with the verb w adds a link to a chain, and errors.Is looks for the     *)
(* sentinel in the chain.  The service package declares sentinels of its   *)
(* own (service.ErrInvalidItemID and the others), distinct values from     *)
(* those of the domain package although their texts are equal.             *)
(***************************************************************************)
StatusOK == 200

StatusCreated == 201

StatusNoContent == 204

StatusBadRequest == 400

StatusNotFound == 404

StatusConflict == 409

StatusInternalServerError == 500

\* The ids of the requests: a stored item, a well-formed id of no item at
\* the start, and a text that is no UUID.
ReqId == {"a", "c", "zz"}

Request ==
    [op : {"GetItemByID", "DeleteItem"}, id : ReqId, SKU : {<< >>}, Quantity : {<< >>}]
    \cup [op : {"UpdateItem"}, id : ReqId, SKU : {<< >>}, Quantity : {<< 1 >>, << 2 >>}]
    \cup [op : {"UpdateItem"}, id : ReqId, SKU : {<< "S2" >>, << "S3" >>}, Quantity : {<< >>}]
    \cup [op : {"CreateItem"}, id : {""}, SKU : {<< "S1" >>, << "S3" >>}, Quantity : {<< 1 >>}]

\* uuid.NewString(): an id no other call draws.
NewString(k) == IF k = 1 THEN "c" ELSE "d"

Is(err, target) == target \in err

\* The UNIQUE constraint on items.sku: another row has this SKU.
SkuTaken(sku, id) ==
    \E other \in Uuid \ {id} : items[other] # << >> /\ items[other][1].SKU = sku

\* The service's translation of the repository's errors.
ServiceNotFound(err) ==
    IF Is(err, "domain.ErrRepositoryNotFound") THEN {"service.ErrItemNotFound"} ELSE err

ServiceDuplicate(err) ==
    IF Is(err, "domain.ErrRepositoryDuplicateEntry") THEN {"service.ErrSKUAlreadyExists"}
                                                      ELSE err

\* The handlers' translation of the service's errors.
GetItemByIDStatus(err) ==
    IF err = {} THEN StatusOK
    ELSE IF Is(err, "domain.ErrInvalidItemID") THEN StatusBadRequest
    ELSE IF Is(err, "domain.ErrItemNotFound") THEN StatusNotFound
    ELSE StatusInternalServerError

CreateItemStatus(err) ==
    IF err = {} THEN StatusCreated
    ELSE IF Is(err, "domain.ErrSKUAlreadyExists") THEN StatusConflict
    ELSE StatusInternalServerError

UpdateItemStatus(err) ==
    IF err = {} THEN StatusOK
    ELSE IF Is(err, "domain.ErrInvalidItemID") THEN StatusBadRequest
    ELSE IF Is(err, "domain.ErrItemNotFound") THEN StatusNotFound
    ELSE IF Is(err, "domain.ErrSKUAlreadyExists") THEN StatusConflict
    ELSE StatusInternalServerError

DeleteItemStatus(err) ==
    IF err = {} THEN StatusNoContent
    ELSE IF Is(err, "domain.ErrInvalidItemID") THEN StatusBadRequest
    ELSE IF Is(err, "domain.ErrItemNotFound") THEN StatusNotFound
    ELSE StatusInternalServerError

\* What no step of the item API touches, the publish of UpdateItem apart.
hubSide == << hubVars, chanVars, pumpVars, upPc, pubVars, histVars, timeVars >>

\* The handler answers with the status and the call is over.
Respond(k, status, h) ==
    /\ svcPc' = [svcPc EXCEPT ![k] = "done"]
    /\ hist' = [hist EXCEPT ![k] = [h EXCEPT !.status = status]]
    /\ existingItem' = [existingItem EXCEPT ![k] = << >>]
    /\ itemForUpdate' = [itemForUpdate EXCEPT ![k] = << >>]
    /\ setClauses' = [setClauses EXCEPT ![k] = {}]

\* A request arrives and is routed to its handler.
Receive(k, rq) ==
    /\ svcPc[k] = "idle"
    /\ svcPc' = [svcPc EXCEPT ![k] = rq.op]
    /\ request' = [request EXCEPT ![k] = rq]
    /\ UNCHANGED << items, existingItem, itemForUpdate, setClauses, hist >>
    /\ UNCHANGED hubSide

\* GET /items/:id
GetItemByID(k) ==
    /\ svcPc[k] = "GetItemByID"
    /\ LET id == request[k].id
           found == WellFormed(id) /\ items[id] # << >>
           err == IF ~WellFormed(id) THEN {"service.ErrInvalidItemID"}
                  ELSE IF ~found THEN ServiceNotFound({"domain.ErrItemNotFound"})
                  ELSE {}
       IN  Respond(k, GetItemByIDStatus(err),
                   [hist[k] EXCEPT !.repoCalls = IF WellFormed(id) THEN 1 ELSE 0,
                                   !.missing = WellFormed(id) /\ ~found])
    /\ UNCHANGED << items, request >>
    /\ UNCHANGED hubSide

\* POST /items: the INSERT is rejected when another row has the SKU.
CreateItem(k) ==
    /\ svcPc[k] = "CreateItem"
    /\ LET id == NewString(k)
           newItem == Item(request[k].SKU[1], request[k].Quantity[1])
           duplicate == SkuTaken(newItem.SKU, id)
           err == IF duplicate THEN ServiceDuplicate({"pgconn.PgError"}) ELSE {}
       IN  /\ items' = IF duplicate THEN items ELSE [items EXCEPT ![id] = << newItem >>]
           /\ Respond(k, CreateItemStatus(err),
                      [hist[k] EXCEPT !.repoCalls = 1,
                                      !.wrote = ~duplicate,
                                      !.conflict = duplicate])
    /\ UNCHANGED request
    /\ UNCHANGED hubSide

\* DELETE /items/:id
DeleteItem(k) ==
    /\ svcPc[k] = "DeleteItem"
    /\ LET id == request[k].id
           found == WellFormed(id) /\ items[id] # << >>
           err == IF ~WellFormed(id) THEN {"service.ErrInvalidItemID"}
                  ELSE IF ~found THEN ServiceNotFound({"pgx.ErrNoRows"})
                  ELSE {}
       IN  /\ items' = IF found THEN [items EXCEPT ![id] = << >>] ELSE items
           /\ Respond(k, DeleteItemStatus(err),
                      [hist[k] EXCEPT !.repoCalls = IF WellFormed(id) THEN 1 ELSE 0,
                                      !.wrote = found,
                                      !.missing = WellFormed(id) /\ ~found])
    /\ UNCHANGED request
    /\ UNCHANGED hubSide

\* The item the service passes to the repository: the values it read, with
\* the fields of the request that are present and differ.
ItemForUpdate(existing, req) ==
    Item(IF req.SKU # << >> /\ req.SKU[1] # existing.SKU THEN req.SKU[1]
                                                          ELSE existing.SKU,
         IF req.Quantity # << >> /\ req.Quantity[1] # existing.Quantity
            THEN req.Quantity[1]
            ELSE existing.Quantity)

\* Mutant: UpdateItem publishes after every successful update.
AfterUpdateAlwaysPublishes(k, updatedItem, h) ==
    /\ svcPc' = [svcPc EXCEPT ![k] = "BroadcastStockUpdate"]
    /\ itemForUpdate' = [itemForUpdate EXCEPT ![k] = << updatedItem >>]
    /\ hist' = [hist EXCEPT ![k] = h]
    /\ setClauses' = [setClauses EXCEPT ![k] = {}]
    /\ UNCHANGED existingItem

\* What UpdateItem does with the item the repository returned: it publishes
\* when the quantity differs from the one it read, and answers.
AfterUpdate(k, updatedItem, h) ==
    IF updatedItem.Quantity # existingItem[k][1].Quantity
       THEN /\ svcPc' = [svcPc EXCEPT ![k] = "BroadcastStockUpdate"]
            /\ itemForUpdate' = [itemForUpdate EXCEPT ![k] = << updatedItem >>]
            /\ hist' = [hist EXCEPT ![k] = h]
            /\ setClauses' = [setClauses EXCEPT ![k] = {}]
            /\ UNCHANGED existingItem
       ELSE Respond(k, UpdateItemStatus({}), h)

\* PUT /items/:id, up to the call of the repository's Update: the service
\* parses the id and reads the item.
UpdateItem(k) ==
    /\ svcPc[k] = "UpdateItem"
    /\ LET id == request[k].id
           found == WellFormed(id) /\ items[id] # << >>
           h == [hist[k] EXCEPT !.repoCalls = IF WellFormed(id) THEN 1 ELSE 0,
                                !.missing = WellFormed(id) /\ ~found]
       IN  IF ~WellFormed(id)
              THEN Respond(k, UpdateItemStatus({"service.ErrInvalidItemID"}), h)
           ELSE IF ~found
              THEN Respond(k, UpdateItemStatus(ServiceNotFound({"domain.ErrItemNotFound"})), h)
           ELSE IF ItemForUpdate(items[id][1], request[k]) = items[id][1]
              THEN Respond(k, UpdateItemStatus({}), h)
           ELSE /\ svcPc' = [svcPc EXCEPT ![k] = "repo.Update"]
                /\ existingItem' = [existingItem EXCEPT ![k] = items[id]]
                /\ itemForUpdate' =
                      [itemForUpdate EXCEPT ![k] = << ItemForUpdate(items[id][1], request[k]) >>]
                /\ hist' = [hist EXCEPT ![k] = h]
                /\ UNCHANGED setClauses
    /\ UNCHANGED << items, request >>
    /\ UNCHANGED hubSide

\* The repository's Update, first statement: it reads the item again and
\* builds its SET clause from the fields that differ from what it read.
RepoUpdateGetByID(k) ==
    /\ svcPc[k] = "repo.Update"
    /\ LET id == request[k].id
           itemUpdate == itemForUpdate[k][1]
           h == [hist[k] EXCEPT !.repoCalls = @ + 1]
       IN  IF items[id] = << >>
              THEN Respond(k, UpdateItemStatus(ServiceDuplicate({"domain.ErrItemNotFound"})), h)
           ELSE LET existing == items[id][1]
                    clauses == (IF itemUpdate.SKU # "" /\ itemUpdate.SKU # existing.SKU
                                   THEN {"sku"} ELSE {})
                               \cup (IF itemUpdate.Quantity # existing.Quantity
                                        THEN {"quantity"} ELSE {})
                IN  IF clauses = {}
                       THEN AfterUpdate(k, existing, h)
                       ELSE /\ svcPc' = [svcPc EXCEPT ![k] = "repo.Update.QueryRow"]
                            /\ setClauses' = [setClauses EXCEPT ![k] = clauses]
                            /\ hist' = [hist EXCEPT ![k] = h]
                            /\ UNCHANGED << existingItem, itemForUpdate >>
    /\ UNCHANGED << items, request >>
    /\ UNCHANGED hubSide

\* The repository's Update, second statement: UPDATE ... SET the columns
\* of the clause ... WHERE id ... RETURNING the row.
RepoUpdateQueryRow(k) ==
    /\ svcPc[k] = "repo.Update.QueryRow"
    /\ LET id == request[k].id
           itemUpdate == itemForUpdate[k][1]
           h == [hist[k] EXCEPT !.repoCalls = @ + 1]
       IN  IF items[id] = << >>
              THEN /\ Respond(k, UpdateItemStatus(ServiceDuplicate({"pgx.ErrNoRows"})), h)
                   /\ UNCHANGED items
           ELSE IF "sku" \in setClauses[k] /\ SkuTaken(itemUpdate.SKU, id)
              THEN /\ Respond(k,
                        UpdateItemStatus(ServiceDuplicate({"domain.ErrRepositoryDuplicateEntry"})),
                        [h EXCEPT !.conflict = TRUE])
                   /\ UNCHANGED items
           ELSE LET row == items[id][1]
                    updatedItem ==
                        Item(IF "sku" \in setClauses[k] THEN itemUpdate.SKU ELSE row.SKU,
                             IF "quantity" \in setClauses[k] THEN itemUpdate.Quantity
                                                             ELSE row.Quantity)
                IN  /\ items' = [items EXCEPT ![id] = << updatedItem >>]
                    /\ AfterUpdate(k, updatedItem,
                          [h EXCEPT !.wrote = TRUE,
                                    !.committed = IF updatedItem.Quantity # row.Quantity
                                                     THEN << updatedItem.Quantity >>
                                                     ELSE << >>])
    /\ UNCHANGED request
    /\ UNCHANGED hubSide

\* UpdateItem publishes the quantity of the item the repository returned.
UpdateItemBroadcast(k) ==
    /\ svcPc[k] = "BroadcastStockUpdate"
    /\ BroadcastStockUpdate(StockUpdatePayload(request[k].id, itemForUpdate[k][1].SKU,
                                               itemForUpdate[k][1].Quantity))
    /\ Respond(k, UpdateItemStatus({}), [hist[k] EXCEPT !.event = nextMsg])
    /\ UNCHANGED << items, request, returnedAt, timeVars >>

NextItems ==
    \E k \in Call :
        \/ \E rq \in Request : Receive(k, rq)
        \/ GetItemByID(k)
        \/ CreateItem(k)
        \/ DeleteItem(k)
        \/ UpdateItem(k)
        \/ RepoUpdateGetByID(k)
        \/ RepoUpdateQueryRow(k)
        \/ UpdateItemBroadcast(k)

SpecItems == Init /\ [][NextItems]_vars

(***************************************************************************)
(* One connection with time: its writePump and readPump from the moment    *)
(* ServeWsUpgrade starts them (time 0), with a peer that never fails and   *)
(* answers every ping at once.  readPump sets the read deadline pongWait   *)
(* ahead when it starts and again in the pong handler, every time a pong   *)
(* arrives; ReadMessage fails once the deadline has passed.  writePump's   *)
(* ticker fires every pingPeriod and ticker.C keeps one tick; the select   *)
(* of writePump takes a message of c.send or the tick, whichever is ready, *)
(* and either when both are.  A write of a message sets the write deadline *)
(* writeWait ahead and succeeds at some time up to it; the write of a ping *)
(* and the peer's pong take no time.  The hub may place a message in       *)
(* c.send at any time.                                                     *)
(***************************************************************************)
\* How long the connection is followed.
MaxTime == 70

\* What the timed connection never touches.
untimed == << hubVars, chanVars, pumpVars, upPc, pubVars, histVars, svcVars >>

\* A second passes.  writePump does not wait at its select when the tick
\* is ready, a write that is due completes, and ReadMessage does not
\* outlast its deadline.
Advance ==
    /\ ~expired
    /\ now < MaxTime
    /\ now <= readDeadline
    /\ ~(writing = "none" /\ tickPending)
    /\ ~(writing # "none" /\ now = writeEnds)
    /\ now' = now + 1
    /\ IF now' = nextTick
          THEN /\ tickPending' = TRUE
               /\ nextTick' = nextTick + pingPeriod
          ELSE UNCHANGED << tickPending, nextTick >>
    /\ UNCHANGED << readDeadline, writing, writeEnds, expired >>
    /\ UNCHANGED untimed

\* case message, ok := <-c.send: the write takes up to writeWait
WriteMessageStart(duration) ==
    /\ ~expired
    /\ writing = "none"
    /\ writing' = "message"
    /\ writeEnds' = now + duration
    /\ UNCHANGED << now, readDeadline, nextTick, tickPending, expired >>
    /\ UNCHANGED untimed

\* case <-ticker.C: the ping is written
WritePingStart ==
    /\ ~expired
    /\ writing = "none"
    /\ tickPending
    /\ tickPending' = FALSE
    /\ writing' = "ping"
    /\ writeEnds' = now
    /\ UNCHANGED << now, readDeadline, nextTick, expired >>
    /\ UNCHANGED untimed

\* The write completes; after a ping the peer's pong arrives and the pong
\* handler sets the read deadline anew, unless ReadMessage has failed.
WriteDone ==
    /\ ~expired
    /\ writing # "none"
    /\ now = writeEnds
    /\ writing' = "none"
    /\ readDeadline' = IF writing = "ping" /\ now <= readDeadline THEN now + pongWait
                                                                 ELSE readDeadline
    /\ UNCHANGED << now, nextTick, tickPending, writeEnds, expired >>
    /\ UNCHANGED untimed

\* ReadMessage fails: the read deadline has passed without a pong.
ReadDeadlineExpires ==
    /\ ~expired
    /\ now > readDeadline
    /\ expired' = TRUE
    /\ UNCHANGED << now, readDeadline, nextTick, tickPending, writing, writeEnds >>
    /\ UNCHANGED untimed

NextTimed ==
    \/ Advance
    \/ \E duration \in 0 .. writeWait : WriteMessageStart(duration)
    \/ WritePingStart
    \/ WriteDone
    \/ ReadDeadlineExpires

SpecTimed == Init /\ [][NextTimed]_vars

(***************************************************************************)
(* What the histories say of one event.                                    *)
(***************************************************************************)
\* The clients whose send buffer event m was placed in.
Receivers(m) == { c \in Conn : m \in Range(offered[c]) }

\* The clients for which fan-out dropped event m.
SkippedBy(m) == { c \in Conn : m \in skipped[c] }

\* The clients the fan-out of the i-th processed event has visited so far.
Visited(i) ==
    IF i = Len(processed) /\ hubPc = "fanout"
       THEN processed[i].reg \ hubTodo
       ELSE processed[i].reg

\* The events Hub.Run has taken from the queue, in the order it took them.
ProcessedMsgs == [i \in 1 .. Len(processed) |-> processed[i].msg]

\* The step is the iteration of the fan-out's range loop that visits c.
VisitOf(c) == hubPc = "fanout" /\ c \in hubTodo /\ c \notin hubTodo'

(***************************************************************************)
(* C1.  A Publish call completes in one step of its own in every reachable *)
(* state of the hub: the step of BroadcastJSONMessage is enabled for every *)
(* event whatever the registry, the subscribers' buffers, the fan-out      *)
(* queue and the position of the coordination loop, and so is the call of  *)
(* BroadcastStockUpdate as long as the model has an event left to publish. *)
(***************************************************************************)
C1_PublishNeverBlocks ==
    /\ \A m \in Msg : ENABLED BroadcastJSONMessage(m)
    /\ nextMsg <= MaxPublish => ENABLED BroadcastStockUpdate(SamplePayload)

\* A Publish call has returned although the queue was full, with no subscriber.
C1_Witness ==
    /\ pubDropped # {}
    /\ Len(broadcast) = BroadcastCap
    /\ clients = {}

\* The parts of C2's formula, stated below.
C2_Exact ==
    /\ \A i \in 1 .. Len(processed) :
          /\ Receivers(processed[i].msg) \cup SkippedBy(processed[i].msg) = Visited(i)
          /\ Receivers(processed[i].msg) \cap SkippedBy(processed[i].msg) = {}
    /\ hubPc = "fanout" => /\ processed[Len(processed)].reg = clients
                           /\ hubTodo \subseteq clients

C2_Step ==
    \A c \in Conn :
        /\ VisitOf(c) =>
              send'[c] = IF Len(send[c]) < SendCap THEN Append(send[c], hubMsg)
                                                   ELSE send[c]
        /\ Len(send'[c]) > Len(send[c]) => VisitOf(c) /\ c \in clients
        /\ skipped'[c] # skipped[c] => VisitOf(c) /\ Len(send[c]) = SendCap
        /\ Len(processed') > Len(processed) =>
              /\ processed'[Len(processed')].reg = clients
              /\ hubTodo' = clients

(***************************************************************************)
(* C2.  The clients that receive an event in their send buffer are exactly *)
(* the members of the registry at the moment Hub.Run takes the event from  *)
(* the queue that have room in their buffer when the loop visits them: the *)
(* loop visits the registry as it was at that moment, each visited client  *)
(* either receives the event or (buffer full) is skipped, and nothing else *)
(* ever places an event in a send buffer.                                  *)
(***************************************************************************)
C2_FanOutExactlyRegistry == [](C2_Exact) /\ [][C2_Step]_vars

\* An event was processed while one client was registered (and received it)
\* and another had already been deregistered (and did not).
C2_Witness ==
    \E i \in 1 .. Len(processed) : \E c, d \in Conn :
        /\ c \in Receivers(processed[i].msg)
        /\ d \notin processed[i].reg
        /\ deregs[d] > 0
        /\ \E j \in 1 .. i - 1 : d \in processed[j].reg

C4_Inv ==
    /\ accepted = ProcessedMsgs \o broadcast
    /\ \A m \in pubDropped :
          /\ m \notin Range(accepted)
          /\ m # hubMsg
          /\ \A c \in Conn : /\ m \notin Range(offered[c]) \cup Range(send[c])
                             /\ m \notin Range(wire[c]) \cup skipped[c]

C4_Step ==
    (nextMsg' # nextMsg /\ Len(broadcast) = BroadcastCap) =>
        /\ nextMsg' = nextMsg + 1
        /\ broadcast' = broadcast
        /\ accepted' = accepted
        /\ pubDropped' = pubDropped \cup {nextMsg}
        /\ UNCHANGED << clients, hubPc, hubMsg, hubTodo >>
        /\ UNCHANGED << chanVars, pumpVars, upPc, histVars >>

(***************************************************************************)
(* C4.  A Publish call made while the fan-out queue holds its full         *)
(* capacity returns (the step is taken) leaving the queue and everything   *)
(* but the record of the drop unchanged; the dropped event never reaches   *)
(* the loop, a buffer or a transport; and the events accepted are taken by *)
(* Hub.Run in the order of their acceptance, the queue holding exactly the *)
(* accepted events not yet taken.                                          *)
(***************************************************************************)
C4_FullQueueDropsNewest == [](C4_Inv) /\ [][C4_Step]_vars

\* An event was dropped at a full queue, and the events that filled the
\* queue have since been fanned out and written to a client, in order.
C4_Witness ==
    /\ pubDropped # {}
    /\ Len(accepted) = BroadcastCap
    /\ broadcast = << >>
    /\ \E c \in Conn : wire[c] = accepted

\* The parts of C5's formula, stated below.
C5_Inv ==
    \A i \in 1 .. Len(processed) : \A c \in SkippedBy(processed[i].msg) :
        /\ processed[i].msg \notin Range(offered[c]) \cup Range(send[c]) \cup Range(wire[c])
        /\ \A d \in Visited(i) \ {c} :
              d \in Receivers(processed[i].msg) \cup SkippedBy(processed[i].msg)

C5_Step ==
    \A c \in Conn :
        /\ (VisitOf(c) /\ Len(send[c]) = SendCap) =>
              /\ send' = send
              /\ offered' = offered
              /\ clients' = clients
              /\ sendClosed' = sendClosed
              /\ hubTodo' = hubTodo \ {c}
              /\ hubTodo' # {} => hubPc' = "fanout" /\ hubMsg' = hubMsg
        /\ (VisitOf(c) /\ Len(send[c]) < SendCap /\ SkippedBy(hubMsg) # {}) =>
              send'[c] = Append(send[c], hubMsg)

(***************************************************************************)
(* C5.  When the fan-out visits a client whose send buffer is full, no     *)
(* buffer changes, the registry and the closed flags are unchanged, and    *)
(* the loop goes on to the clients it has still to visit; the client never *)
(* receives that event; and a client visited in a pass in which another    *)
(* was skipped receives the event if its own buffer has room.              *)
(***************************************************************************)
C5_FullBufferDropsForOne == [](C5_Inv) /\ [][C5_Step]_vars

\* A pass is over in which one client was skipped and another received.
C5_Witness ==
    \E i \in 1 .. Len(processed) : \E c, d \in Conn :
        /\ i < Len(processed) \/ hubPc = "select"
        /\ c \in SkippedBy(processed[i].msg)
        /\ d \in Receivers(processed[i].msg)

\* The parts of C6's formula, stated below.
C6_Inv ==
    \A c \in Conn : (skipped[c] # {} /\ deregs[c] = 0) => c \in clients /\ ~sendClosed[c]

C6_Step ==
    \A c \in Conn :
        /\ (VisitOf(c) /\ Len(send[c]) = SendCap) =>
              c \in clients' /\ ~sendClosed'[c] /\ skipped'[c] = skipped[c] \cup {hubMsg}
        /\ (skipped[c] # {} /\ c \in clients /\ Len(processed') > Len(processed)) =>
              c \in hubTodo'
        /\ (skipped[c] # {} /\ VisitOf(c) /\ Len(send[c]) < SendCap) =>
              send'[c] = Append(send[c], hubMsg)

(***************************************************************************)
(* C6.  A client for which an event was dropped stays registered with its  *)
(* buffer open until a deregistration request for it is applied; the loop  *)
(* of every later event ranges over it as long as it is registered, and    *)
(* when the loop visits it and its buffer has room the event is placed in  *)
(* the buffer.                                                             *)
(***************************************************************************)
C6_DropDoesNotDisable == [](C6_Inv) /\ [][C6_Step]_vars

\* A client missed an event and was given a later one.
C6_Witness ==
    \E c \in Conn : \E m \in skipped[c] : \E i \in 1 .. Len(offered[c]) :
        Pos(accepted, m) < Pos(accepted, offered[c][i])

\* The parts of C7's formula, stated below.
C7_Inv ==
    \A c \in Conn :
        /\ closeCount[c] = IF deregs[c] > 0 THEN 1 ELSE 0
        /\ sendClosed[c] <=> deregs[c] > 0
        /\ deregs[c] > 0 => c \notin clients

C7_Step ==
    \A c \in Conn :
        deregs'[c] # deregs[c] =>
            /\ send' = send
            /\ \A d \in Conn \ {c} : /\ d \in clients' <=> d \in clients
                                     /\ sendClosed'[d] = sendClosed[d]
                                     /\ closeCount'[d] = closeCount[d]
            /\ IF deregs[c] = 0
                  THEN /\ c \in clients /\ c \notin clients'
                       /\ ~sendClosed[c] /\ sendClosed'[c]
                       /\ closeCount'[c] = 1
                  ELSE /\ clients' = clients
                       /\ sendClosed' = sendClosed
                       /\ closeCount' = closeCount

(***************************************************************************)
(* C7.  Deregistration is idempotent.  Of the requests for a client that   *)
(* Hub.Run takes from unregister, the first removes it from the registry   *)
(* and closes its send buffer; every later one changes neither registry    *)
(* nor buffer; so the buffer is closed exactly once however many requests  *)
(* arrive (a second close would panic).  Checked with a second requester.  *)
(***************************************************************************)
C7_DeregisterIdempotent == [](C7_Inv) /\ [][C7_Step]_vars

\* Two requests for the same client have been applied; one close.
C7_Witness ==
    \E c \in Conn : deregs[c] >= 2 /\ closeCount[c] = 1 /\ rpPc[c] = "done"

\* The parts of C8's formula, stated below.
TornDown(c) ==
    /\ c \notin clients
    /\ sendClosed[c]
    /\ ~connOpen[c]
    /\ wpPc[c] = "done"
    /\ rpPc[c] = "done"

(***************************************************************************)
(* C8.  Under fair scheduling, once a loop of a client has observed a      *)
(* terminal condition (a failed message write, a failed ping, a failed     *)
(* read: error, deadline or peer close), the client is eventually out of   *)
(* the registry with its send buffer closed, its connection closed and     *)
(* both loops returned; also when writePump is the loop that fails first.  *)
(***************************************************************************)
C8_EventualTeardown == \A c \in Conn : (term[c] # "none") ~> TornDown(c)

\* A client whose writePump failed first has been torn down.
C8_Witness == \E c \in Conn : term[c] \in {"write", "ping"} /\ TornDown(c)

\* The parts of C9's formula, stated below.
TeardownStepOf(c) ==
    \/ term'[c] # term[c]
    \/ wpPc[c] = "run" /\ wpPc'[c] = "done"
    \/ rpPc[c] # "none" /\ rpPc'[c] # rpPc[c]
    \/ connOpen[c] /\ ~connOpen'[c]

C9_Inv ==
    \A d \in Conn :
        (upPc[d] = "done" /\ term[d] = "none") =>
            /\ d \in clients
            /\ ~sendClosed[d]
            /\ connOpen[d]
            /\ wpPc[d] = "run"
            /\ rpPc[d] = "run"

C9_Step ==
    \A c \in Conn :
        /\ TeardownStepOf(c) =>
              /\ broadcast' = broadcast
              /\ \A d \in Conn \ {c} :
                    /\ d \in clients' <=> d \in clients
                    /\ send'[d] = send[d]
                    /\ sendClosed'[d] = sendClosed[d]
                    /\ connOpen'[d] = connOpen[d]
                    /\ wpPc'[d] = wpPc[d]
                    /\ rpPc'[d] = rpPc[d]
                    /\ term'[d] = term[d]
        /\ (term[c] # "none" /\ Len(processed') > Len(processed)) =>
              hubTodo' = clients /\ clients \ {c} \subseteq hubTodo'
        /\ \A d \in Conn \ {c} :
              (term[c] # "none" /\ VisitOf(d) /\ Len(send[d]) < SendCap) =>
                  send'[d] = Append(send[d], hubMsg)

C10_AtMostOnce ==
    /\ NoDup(accepted)
    /\ NoDup(ProcessedMsgs)
    /\ Range(accepted) \subseteq 1 .. nextMsg - 1
    /\ Range(accepted) \cap pubDropped = {}
    /\ \A c \in Conn :
          /\ NoDup(offered[c])
          /\ NoDup(wire[c])
          /\ NoDup(send[c])
          /\ Range(wire[c]) \subseteq Range(offered[c])
          /\ Range(send[c]) \subseteq Range(offered[c])
          /\ Range(send[c]) \cap Range(wire[c]) = {}
          /\ Range(offered[c]) \subseteq Range(accepted)
          /\ Range(offered[c]) \cap skipped[c] = {}

\* A client has one event on its transport, lost another to a failed write,
\* and had a third dropped at its full buffer.
C10_Witness ==
    \E c \in Conn :
        /\ wire[c] # << >>
        /\ skipped[c] # {}
        /\ \E m \in Range(offered[c]) : m \notin Range(wire[c]) \cup Range(send[c])

\* The parts of C11's formula, stated below.
C11_Inv ==
    /\ \A c \in Conn :
          upPc[c] \in {"registered", "done"} => c \in clients \/ closeCount[c] > 0
    /\ \A i \in 1 .. Len(processed) :
          \A c \in returnedAt[processed[i].msg] :
              /\ c \in processed[i].reg \/ closeCount[c] > 0
              /\ c \in Visited(i) =>
                    c \in Receivers(processed[i].msg) \cup SkippedBy(processed[i].msg)

C11_Step ==
    Len(processed') > Len(processed) =>
        \A c \in returnedAt[Head(broadcast)] :
            /\ c \in clients \/ closeCount[c] > 0
            /\ c \in clients => c \in hubTodo'

C18_MembersHaveOpenBuffer == \A c \in clients : ~sendClosed[c]

\* One client is a member while the other's buffer has been closed.
C18_Witness ==
    \E c, d \in Conn :
        /\ c \in clients
        /\ sendClosed[d]
        /\ upPc[c] = "done"

(***************************************************************************)
(* C19.  Hub.Run never sends to a closed send buffer: in every iteration   *)
(* of the fan-out's range loop the visited client's buffer is open at the  *)
(* moment of the send, and it is a member of the registry.                 *)
(***************************************************************************)
C19_FanOutSendsToOpenBuffer ==
    [][\A c \in Conn : VisitOf(c) => ~sendClosed[c] /\ c \in clients]_vars

\* The loop is about to visit a client whose readPump already waits to
\* deregister it, while the other client's buffer has been closed.
C19_Witness ==
    \E c, d \in Conn :
        /\ hubPc = "fanout"
        /\ c \in hubTodo
        /\ rpPc[c] = "unregister"
        /\ sendClosed[d]

\* The parts of C20's formula, stated below.
C20_Inv == \A c \in Conn : closeCount[c] > 0 \/ deregs[c] > 0 => c \notin clients

C20_Step ==
    \A c \in Conn :
        /\ (c \in clients' /\ c \notin clients) =>
              /\ upPc[c] = "registering"
              /\ upPc'[c] = "registered"
              /\ closeCount[c] = 0
        /\ upPc[c] \in {"registered", "done"} => upPc'[c] \in {"registered", "done"}

(***************************************************************************)
(* C20.  A client removed from the registry is never a member again, and a *)
(* client is registered at most once, by ServeWsUpgrade: the only step     *)
(* that adds a client is the receipt of the one register request of its    *)
(* ServeWsUpgrade call, which is never sent again, and a client whose      *)
(* deregistration Hub.Run has handled is not in the registry.              *)
(***************************************************************************)
C20_NeverRegisteredAgain == [](C20_Inv) /\ [][C20_Step]_vars

\* A client has been removed and both its loops have ended, while the
\* other client is still registered.
C20_Witness ==
    \E c, d \in Conn :
        /\ closeCount[c] = 1
        /\ rpPc[c] = "done"
        /\ wpPc[c] = "done"
        /\ d \in clients

\* The bytes decode to a message of type STOCK_UPDATE whose payload has
\* exactly the members id, sku and new_quantity, with the payload's values.
IsStockUpdateOf(toks, payload) ==
    LET message == Unmarshal(toks)
    IN  /\ DOMAIN message = {"type", "payload"}
        /\ message["type"] = "STOCK_UPDATE"
        /\ DOMAIN message["payload"] = {"id", "sku", "new_quantity"}
        /\ message["payload"]["id"] = payload.ID
        /\ message["payload"]["sku"] = payload.SKU
        /\ message["payload"]["new_quantity"] = payload.NewQuantity

\* The parts of C12's formula, stated below.
C12_Inv ==
    /\ marshalCalls = nextMsg - 1
    /\ Len(published) = nextMsg - 1
    /\ \A m \in 1 .. nextMsg - 1 : IsStockUpdateOf(bytes[m], published[m])
    /\ \A c \in Conn :
          /\ Len(wireBytes[c]) = Len(wire[c])
          /\ \A i \in 1 .. Len(wire[c]) :
                /\ wireBytes[c][i] = bytes[wire[c][i]]
                /\ IsStockUpdateOf(wireBytes[c][i], published[wire[c][i]])
                /\ \A d \in Conn : \A j \in 1 .. Len(wire[d]) :
                      wire[d][j] = wire[c][i] => wireBytes[d][j] = wireBytes[c][i]

C12_Step ==
    /\ \A m \in Msg : bytes[m] # << >> => bytes'[m] = bytes[m]
    /\ marshalCalls' # marshalCalls =>
          /\ marshalCalls' = marshalCalls + 1
          /\ nextMsg' = nextMsg + 1

(***************************************************************************)
(* C12.  An event is encoded once per Publish call, by json.Marshal in     *)
(* BroadcastStockUpdate and nowhere else; the bytes are never changed      *)
(* afterwards; every client that writes the event writes those same bytes, *)
(* and they decode to a message of type STOCK_UPDATE whose payload has id, *)
(* sku and new_quantity equal to the published item id, SKU and quantity.  *)
(***************************************************************************)
C12_EncodedOnceSameForAll == [](C12_Inv) /\ [][C12_Step]_vars

\* Two events with different payloads were published, and both clients
\* have written the same one, of quantity 12, to their transports.
C12_Witness ==
    \E m \in 1 .. nextMsg - 1 : \E c, d \in Conn :
        /\ c # d
        /\ m \in Range(wire[c]) \cap Range(wire[d])
        /\ published[m].NewQuantity = 12
        /\ \E n \in 1 .. nextMsg - 1 : published[n] # published[m]

(***************************************************************************)
(* What the histories say of the calls of the item API.                    *)
(***************************************************************************)
Returned(k) == svcPc[k] = "done"

\* The events published for item id, in the order of their Publish calls.
EventsOf(id) == { m \in 1 .. Len(published) : published[m].ID = id }

LastEventOf(id) == CHOOSE m \in EventsOf(id) : \A n \in EventsOf(id) : n <= m

\* The parts of C13's formula, stated below.
C13_CommitPublishes ==
    \A k \in Call :
        (Returned(k) /\ hist[k].committed # << >>) =>
            /\ hist[k].event # 0
            /\ published[hist[k].event].NewQuantity = hist[k].committed[1]

C13_LastEventIsStored ==
    (\A k \in Call : svcPc[k] \in {"idle", "done"}) =>
        \A id \in Uuid :
            (items[id] # << >> /\ EventsOf(id) # {}) =>
                published[LastEventOf(id)].NewQuantity = items[id][1].Quantity

(***************************************************************************)
(* C13.  Every UpdateItem call whose UPDATE statement changed the stored   *)
(* quantity of an item has published an event with the quantity it stored  *)
(* when it returns; and when no call is in progress, the last event        *)
(* published for a stored item carries the item's stored quantity.         *)
(***************************************************************************)
C13_QuantityChangePublished == C13_CommitPublishes /\ C13_LastEventIsStored

(***************************************************************************)
(* C15.  A GetItemByID, UpdateItem or DeleteItem call whose id is not a    *)
(* well-formed UUID is answered with 400 Bad Request and makes no call of  *)
(* the repository.                                                         *)
(***************************************************************************)
C15_MalformedIdIsBadRequest ==
    \A k \in Call :
        (/\ Returned(k)
         /\ request[k].op \in {"GetItemByID", "UpdateItem", "DeleteItem"}
         /\ ~WellFormed(request[k].id)) =>
            /\ hist[k].status = StatusBadRequest
            /\ hist[k].repoCalls = 0

(***************************************************************************)
(* C16.  A GetItemByID, UpdateItem or DeleteItem call with a well-formed   *)
(* id for which the repository finds no item is answered with 404 Not      *)
(* Found and has changed no stored item.                                   *)
(***************************************************************************)
C16_UnknownIdIsNotFound ==
    \A k \in Call :
        (/\ Returned(k)
         /\ request[k].op \in {"GetItemByID", "UpdateItem", "DeleteItem"}
         /\ hist[k].missing) =>
            /\ hist[k].status = StatusNotFound
            /\ ~hist[k].wrote

(***************************************************************************)
(* C17.  A CreateItem or UpdateItem call whose statement would give an     *)
(* item the SKU of another stored item is answered with 409 Conflict, has  *)
(* stored nothing and has published no event.                              *)
(***************************************************************************)
C17_DuplicateSkuIsConflict ==
    \A k \in Call :
        (/\ Returned(k)
         /\ request[k].op \in {"CreateItem", "UpdateItem"}
         /\ hist[k].conflict) =>
            /\ hist[k].status = StatusConflict
            /\ ~hist[k].wrote
            /\ hist[k].event = 0

(***************************************************************************)
(* C14.  The ping period is shorter than the read deadline (54 s against   *)
(* 60 s), and the read of a connection whose peer answers every ping at    *)
(* once never fails on the read deadline: writePump sends a ping before    *)
(* each deadline passes, also while it delivers messages.                  *)
(***************************************************************************)
C14_NoFalseDeadlineExpiry ==
    /\ pingPeriod = 54
    /\ pongWait = 60
    /\ pingPeriod < pongWait
    /\ ~expired
    /\ now <= readDeadline

\* The parts of C21's formula, stated below.
C21_Step ==
    \A c \in Conn :
        (sendClosed'[c] # sendClosed[c] \/ closeCount'[c] # closeCount[c]) =>
            /\ hubPc = "select" /\ hubPc' = "select"
            /\ rpPc[c] = "unregister" /\ rpPc'[c] = "close"
            /\ deregs'[c] = deregs[c] + 1
            /\ c \in clients /\ c \notin clients'
            /\ ~sendClosed[c] /\ sendClosed'[c]
            /\ closeCount'[c] = closeCount[c] + 1
            /\ wpPc' = wpPc
            /\ connOpen' = connOpen
            /\ nextMsg' = nextMsg
            /\ broadcast' = broadcast
            /\ send' = send

(***************************************************************************)
(* C21.  A client's send buffer is closed only by Hub.Run's case for       *)
(* unregister: every step that closes it is that case, taken at the select *)
(* for the request of the client's readPump, and removes the client from   *)
(* the registry.  No step of writePump, of readPump, of Publish or of the  *)
(* fan-out's range loop closes a buffer.                                   *)
(***************************************************************************)
C21_ClosedOnlyByUnregister == [][C21_Step]_vars

\* A buffer has been closed although the client's writePump was the loop
\* that failed first, on a message write, and both loops have returned.
C21_Witness ==
    \E c \in Conn :
        /\ closeCount[c] = 1
        /\ term[c] = "write"
        /\ wpPc[c] = "done"
        /\ rpPc[c] = "done"

(***************************************************************************)
(* C22.  Whenever writePump or readPump of a client is running, the client *)
(* has been inserted into the registry (it is a member, or Hub.Run has     *)
(* removed it since): ServeWsUpgrade does not start the pumps before       *)
(* Hub.Run has added the client to the map.                                *)
(***************************************************************************)
C22_LoopsRunOnlyRegistered ==
    \A c \in Conn :
        (wpPc[c] # "none" \/ rpPc[c] # "none") => c \in clients \/ closeCount[c] > 0

\* The parts of C23's formula, stated below.
\* The step is Hub.Run's insert of the client c it received on register.
RegisterStepOf(c) ==
    /\ hubPc = "register" /\ hubPc' = "select"
    /\ hubTodo = {c}
    /\ upPc[c] \in {"registered", "done"}
    /\ c \notin clients
    /\ clients' = clients \cup {c}

\* The step is Hub.Run's case for the unregister request of client c.
UnregisterStepOf(c) ==
    /\ hubPc = "select" /\ hubPc' = "select"
    /\ rpPc[c] = "unregister" /\ rpPc'[c] = "close"
    /\ deregs'[c] = deregs[c] + 1
    /\ c \in clients
    /\ clients' = clients \ {c}

\* The step is one of a pump: of writePump, or of readPump other than the
\* rendezvous of its unregister request with Hub.Run.
PumpStepOf(c) ==
    \/ wpPc'[c] # wpPc[c]
    \/ wire'[c] # wire[c]
    \/ term'[c] # term[c]
    \/ connOpen[c] /\ ~connOpen'[c]
    \/ rpPc'[c] # rpPc[c] /\ rpPc[c] # "unregister"

C23_Step ==
    /\ clients' # clients => \E c \in Conn : RegisterStepOf(c) \/ UnregisterStepOf(c)
    /\ nextMsg' # nextMsg => clients' = clients
    /\ Len(processed') > Len(processed) => clients' = clients
    /\ \A c \in Conn :
          /\ VisitOf(c) => clients' = clients
          /\ PumpStepOf(c) => clients' = clients
          /\ upPc'[c] # upPc[c] => clients' = clients

(***************************************************************************)
(* C23.  The registry changes only in Hub.Run's register case, which adds  *)
(* exactly the client it received, and in its unregister case, which       *)
(* removes exactly the client of the request.  A Publish call, the taking  *)
(* of an event from the queue, an iteration of the fan-out's range loop    *)
(* (also one that finds the client's buffer full), every step of           *)
(* writePump and readPump, and the steps of ServeWsUpgrade leave it as it  *)
(* is.                                                                     *)
(***************************************************************************)
C23_RegistryChangesOnlyInRun == [][C23_Step]_vars

\* The fan-out has dropped an event at the full buffer of a client that is
\* still a member, and the other client has been registered and removed.
C23_Witness ==
    \E c, d \in Conn :
        /\ skipped[c] # {}
        /\ c \in clients
        /\ closeCount[d] = 1
        /\ d \notin clients

\* The parts of C24's formula, stated below.
\* The step is Hub.Run taking a request: a client from register, a client
\* from unregister, or an event from broadcast.
TakesRequest ==
    \/ \E c \in Conn : upPc[c] = "registering" /\ upPc'[c] = "registered"
    \/ \E c \in Conn : deregs'[c] # deregs[c]
    \/ Len(processed') > Len(processed)

C24_Inv ==
    /\ hubPc \in {"select", "register", "fanout"}
    /\ hubPc = "select" => hubTodo = {} /\ hubMsg = 0
    /\ hubPc = "register" => Cardinality(hubTodo) = 1 /\ hubMsg = 0
    /\ hubPc = "fanout" =>
          /\ hubTodo # {} /\ hubMsg # 0
          /\ hubMsg = processed[Len(processed)].msg
          /\ clients = processed[Len(processed)].reg
          /\ hubTodo \subseteq clients

C24_Step ==
    /\ TakesRequest => hubPc = "select"
    /\ hubPc = "fanout" =>
          /\ clients' = clients
          /\ sendClosed' = sendClosed
          /\ hubMsg' \in {hubMsg, 0}
          /\ hubTodo' \subseteq hubTodo
          /\ Cardinality(hubTodo \ hubTodo') <= 1
          /\ hubPc' = "select" <=> hubTodo' = {}
    /\ hubPc = "register" =>
          /\ clients' \in {clients, clients \cup hubTodo}
          /\ hubPc' = "select" <=> clients' = clients \cup hubTodo /\ hubTodo' = {}
          /\ hubPc' # "select" => hubTodo' = hubTodo /\ hubPc' = "register"

(***************************************************************************)
(* C24.  Hub.Run applies one request at a time: it takes a register        *)
(* request, an unregister request or an event only at its select, never    *)
(* while a request taken before is still being applied, and it returns to  *)
(* the select only when that request is applied in full (the client        *)
(* inserted, every member visited).  So from the start to the end of a     *)
(* fan-out the registry is the one the range loop began with, and no       *)
(* buffer is closed meanwhile.                                             *)
(***************************************************************************)
C24_OneRequestAtATime == [](C24_Inv) /\ [][C24_Step]_vars

\* A fan-out is under way for a client whose readPump already waits to
\* deregister it, the other client waits to be registered, and the next
\* event waits in the queue.
C24_Witness ==
    \E c, d \in Conn :
        /\ hubPc = "fanout"
        /\ c \in hubTodo
        /\ rpPc[c] = "unregister"
        /\ upPc[d] = "registering"
        /\ broadcast # << >>

\* The parts of C25's formula, stated below.
\* The lifecycle state of client c, read off the state of the program:
\* Connecting while ServeWsUpgrade waits to register it, Active once Hub.Run
\* has received the registration, Closing once a loop has observed a
\* terminal condition, Closed once conn is closed and Hub.Run has
\* deregistered it (closed send).
Lifecycle(c) ==
    IF upPc[c] = "none" THEN "None"
    ELSE IF upPc[c] = "registering" THEN "Connecting"
    ELSE IF ~connOpen[c] /\ sendClosed[c] THEN "Closed"
    ELSE IF term[c] # "none" THEN "Closing"
    ELSE "Active"

LifecycleAfter(c) ==
    IF upPc'[c] = "none" THEN "None"
    ELSE IF upPc'[c] = "registering" THEN "Connecting"
    ELSE IF ~connOpen'[c] /\ sendClosed'[c] THEN "Closed"
    ELSE IF term'[c] # "none" THEN "Closing"
    ELSE "Active"

Rank(state) ==
    CASE state = "None" -> 0
      [] state = "Connecting" -> 1
      [] state = "Active" -> 2
      [] state = "Closing" -> 3
      [] state = "Closed" -> 4

C25_Inv ==
    \A c \in Conn :
        /\ Lifecycle(c) \in {"None", "Connecting"} =>
              /\ term[c] = "none" /\ wpPc[c] = "none" /\ rpPc[c] = "none"
              /\ c \notin clients /\ ~sendClosed[c]
        /\ Lifecycle(c) = "Active" => connOpen[c] /\ ~sendClosed[c]
        /\ Lifecycle(c) = "Closing" => upPc[c] = "done" /\ (connOpen[c] \/ ~sendClosed[c])
        /\ Lifecycle(c) = "Closed" => term[c] # "none" /\ c \notin clients
        /\ term[c] # "none" => Lifecycle(c) \in {"Closing", "Closed"}

C25_Step ==
    \A c \in Conn :
        /\ Rank(LifecycleAfter(c)) \in {Rank(Lifecycle(c)), Rank(Lifecycle(c)) + 1}
        /\ Lifecycle(c) = "Closed" => LifecycleAfter(c) = "Closed"
        /\ (Lifecycle(c) = "Connecting" /\ LifecycleAfter(c) = "Active") =>
              hubPc = "select" /\ upPc'[c] = "registered"
        /\ (Lifecycle(c) = "Active" /\ LifecycleAfter(c) = "Closing") =>
              term'[c] # "none" /\ (wpPc'[c] = "done" \/ rpPc'[c] = "unregister")
        /\ (term[c] = "none" /\ term'[c] # "none") =>
              Lifecycle(c) = "Active" /\ LifecycleAfter(c) = "Closing"
        /\ term[c] # "none" => term'[c] = term[c]

(***************************************************************************)
(* C25.  The lifecycle state of a client only moves forward along          *)
(* Connecting, Active, Closing, Closed, one state at a time.  The client   *)
(* is Active from its registration, Closing from the step in which         *)
(* writePump or readPump first observes a terminal condition (the first    *)
(* observation stands), Closed once conn is closed and Hub.Run has         *)
(* deregistered it; no step leaves Closed and none leads back.             *)
(***************************************************************************)
C25_LifecycleMovesForward == [](C25_Inv) /\ [][C25_Step]_vars

\* One client is Closed after its readPump failed first; the other is
\* Closing after its writePump failed first.
C25_Witness ==
    \E c, d \in Conn :
        /\ Lifecycle(c) = "Closed" /\ term[c] = "read"
        /\ Lifecycle(d) = "Closing" /\ term[d] \in {"write", "ping"}

\* The parts of C26's formula, stated below.
C26_Inv ==
    \A c \in Conn :
        /\ deregs[c] <= 1
        /\ rpPc[c] \in {"none", "run", "unregister"} => deregs[c] = 0
        /\ rpPc[c] \in {"close", "done"} => deregs[c] = 1
        /\ rpPc[c] \in {"unregister", "close", "done"} => term[c] # "none"
        /\ rpPc[c] = "done" => ~connOpen[c]

C26_Step ==
    \A c \in Conn :
        /\ (rpPc[c] = "run" /\ rpPc'[c] # "run") =>
              /\ rpPc'[c] = "unregister"
              /\ connOpen'[c] = connOpen[c]
              /\ deregs'[c] = deregs[c]
        /\ rpPc[c] \in {"unregister", "close", "done"} => rpPc'[c] # "run"
        /\ deregs'[c] # deregs[c] =>
              /\ rpPc[c] = "unregister" /\ rpPc'[c] = "close"
              /\ wpPc'[c] = wpPc[c]
              /\ connOpen'[c] = connOpen[c]
        /\ (connOpen[c] /\ ~connOpen'[c]) =>
              \/ wpPc[c] = "run" /\ wpPc'[c] = "done" /\ rpPc'[c] = rpPc[c]
              \/ rpPc[c] = "close" /\ rpPc'[c] = "done" /\ deregs[c] = 1
        /\ (wpPc[c] = "run" /\ wpPc'[c] # "run") => deregs' = deregs /\ rpPc' = rpPc

(***************************************************************************)
(* C26.  When its read fails (error, read deadline, close by the peer),    *)
(* readPump stops reading for good, sends one unregister request for its   *)
(* own client, and closes the connection only after Hub.Run has taken that *)
(* request.  writePump never sends an unregister request, so Hub.Run gets  *)
(* at most one request per client.                                         *)
(***************************************************************************)
C26_ReadPumpUnregistersThenCloses == [](C26_Inv) /\ [][C26_Step]_vars

\* readPump failed first, its request was taken and it closed the
\* connection, while writePump has not yet returned.
C26_Witness ==
    \E c \in Conn :
        /\ term[c] = "read"
        /\ rpPc[c] = "done"
        /\ deregs[c] = 1
        /\ ~connOpen[c]
        /\ wpPc[c] = "run"

\* The parts of C27's formula, stated below.
C27_Inv ==
    \A c \in Conn :
        /\ wpExit[c].path \in {"none", "closed", "write", "ping"}
        /\ wpExit[c].path = "closed" =>
              /\ wpExit[c].closeFrames = 1
              /\ sendClosed[c] /\ send[c] = << >>
        /\ wpExit[c].path # "closed" => wpExit[c].closeFrames = 0
        /\ wpPc[c] = "done" <=> wpExit[c].path # "none"
        /\ wpPc[c] = "done" => ~connOpen[c]

C27_Step ==
    \A c \in Conn :
        /\ (wpPc[c] = "run" /\ wpPc'[c] = "done") =>
              /\ ~connOpen'[c]
              /\ wire'[c] = wire[c]
              /\ wpExit'[c].path = "closed" <=> (sendClosed[c] /\ send[c] = << >> /\ wpExit'[c].closeFrames = 1)
              /\ wpExit'[c].path = "write" => send[c] # << >>
        /\ wpPc[c] = "done" =>
              /\ wpPc'[c] = "done"
              /\ wire'[c] = wire[c]
              /\ wpExit'[c] = wpExit[c]
              /\ ~connOpen'[c]

C28_RunNeverBlocked ==
    /\ hubPc \in {"select", "fanout"}
    /\ hubPc = "fanout" => hubTodo # {} /\ \A c \in hubTodo : ENABLED HubFanOut(c)
    /\ \A c \in Conn : hubPc = "select" /\ upPc[c] = "registering" => ENABLED HubRegister(c)
    /\ \A c \in Conn : hubPc = "select" /\ rpPc[c] = "unregister" => ENABLED HubUnregister(c)
    /\ hubPc = "select" /\ broadcast # << >> => ENABLED HubBroadcast

(***************************************************************************)
(* C28.  The hub never deadlocks.  Hub.Run never waits inside a case (the  *)
(* fan-out's send has a default case), so it always comes back to its      *)
(* select; and under fair scheduling of Hub.Run every ServeWsUpgrade       *)
(* blocked on register and every readPump blocked on unregister is         *)
(* eventually served, whatever the clients' buffers and the queue hold.    *)
(***************************************************************************)
C28_HubNeverDeadlocks ==
    /\ [](C28_RunNeverBlocked)
    /\ (hubPc # "select") ~> (hubPc = "select")
    /\ \A c \in Conn : (upPc[c] = "registering") ~> (upPc[c] = "registered")
    /\ \A c \in Conn : (rpPc[c] = "unregister") ~> (rpPc[c] = "close")

\* A registration has just been taken although the other client, still a
\* member, has a full buffer that nobody drains (its writePump returned)
\* and has had an event dropped.
C28_Witness ==
    \E c, d \in Conn :
        /\ upPc[c] = "registered"
        /\ d \in clients
        /\ Len(send[d]) = SendCap
        /\ wpPc[d] = "done"
        /\ skipped[d] # {}

\* The parts of C29's formula, stated below.
\* Client c has been built (its send buffer exists) and the buffer is open.
HasOpenBuffer(c) == upPc[c] # "none" /\ ~sendClosed[c]

\* The registration of c is under way: ServeWsUpgrade is sending it on
\* register, or Hub.Run has received it and not yet inserted it.
BeingRegistered(c) ==
    \/ upPc[c] = "registering"
    \/ hubPc = "register" /\ c \in hubTodo /\ c \notin clients

(***************************************************************************)
(* C29.  In every reachable state a client whose send buffer exists and is *)
(* open is a member of the registry or is being registered (its request    *)
(* is pending or received and not yet applied).  No client with an open    *)
(* buffer is outside the registry otherwise: the buffer is closed in the   *)
(* step that removes the client.                                           *)
(***************************************************************************)
C29_OpenBufferIsRegistered ==
    \A c \in Conn : HasOpenBuffer(c) => c \in clients \/ BeingRegistered(c)

\* One client's registration has been received and not yet applied while
\* its pumps already run; the other client has been removed and its buffer
\* closed.
C29_Witness ==
    \E c, d \in Conn :
        /\ HasOpenBuffer(c)
        /\ hubPc = "register" /\ c \in hubTodo
        /\ wpPc[c] = "run"
        /\ sendClosed[d] /\ d \notin clients

\* The parts of C30's formula, stated below.
\* The request of call k names no field, or only values the stored item
\* already has.
ChangesNoField(k) ==
    LET id == request[k].id
    IN  /\ WellFormed(id) /\ items[id] # << >>
        /\ request[k].SKU = << >> \/ request[k].SKU[1] = items[id][1].SKU
        /\ request[k].Quantity = << >> \/ request[k].Quantity[1] = items[id][1].Quantity

C30_Inv ==
    /\ nextMsg - 1 = Cardinality({k \in Call : hist[k].event # 0})
    /\ \A k \in Call :
          /\ hist[k].event # 0 =>
                /\ request[k].op = "UpdateItem"
                /\ Returned(k) /\ hist[k].status = StatusOK
                /\ published[hist[k].event].ID = request[k].id
          /\ (Returned(k) /\ hist[k].status # StatusOK) => hist[k].event = 0
          /\ \A j \in Call : (j # k /\ hist[k].event # 0) => hist[j].event # hist[k].event

C30_Step ==
    /\ nextMsg' \in {nextMsg, nextMsg + 1}
    /\ nextMsg' # nextMsg =>
          \E k \in Call :
              /\ request[k].op = "UpdateItem"
              /\ hist[k].event = 0 /\ hist'[k].event = nextMsg
              /\ svcPc'[k] = "done" /\ hist'[k].status = StatusOK
              /\ existingItem[k] # << >> /\ itemForUpdate[k] # << >>
              /\ published'[nextMsg].NewQuantity = itemForUpdate[k][1].Quantity
              /\ itemForUpdate[k][1].Quantity # existingItem[k][1].Quantity
    /\ \A k \in Call :
          /\ hist[k].event # 0 => hist'[k].event = hist[k].event
          /\ (svcPc[k] = "UpdateItem" /\ svcPc'[k] # "UpdateItem" /\ ChangesNoField(k)) =>
                /\ svcPc'[k] = "done"
                /\ hist'[k].status = StatusOK
                /\ hist'[k].repoCalls = 1
                /\ ~hist'[k].wrote
                /\ hist'[k].event = 0
                /\ items' = items
                /\ nextMsg' = nextMsg

(***************************************************************************)
(* C30.  An UpdateItem call publishes at most one event.  It publishes     *)
(* none when it returns an error (malformed id, no such item, a failure of *)
(* the repository), and none when the quantity of the item the             *)
(* repository's Update returned equals the quantity the service read       *)
(* before; no other operation publishes.  A request that changes no field  *)
(* of the item is answered with the item as read, after the one read and   *)
(* without a call of the repository's Update.                              *)
(***************************************************************************)
C30_AtMostOneEventPerUpdate == [](C30_Inv) /\ [][C30_Step]_vars

\* One call changed the quantity and published; the other asked for values
\* the item then had and returned it after the one read, publishing nothing.
C30_Witness ==
    \E k, j \in Call :
        /\ Returned(k) /\ hist[k].event # 0 /\ hist[k].wrote
        /\ Returned(j) /\ request[j].op = "UpdateItem"
        /\ request[j].id = request[k].id
        /\ hist[j].status = StatusOK
        /\ hist[j].repoCalls = 1
        /\ hist[j].event = 0

=============================================================================
